---- MODULE Spec2Model ----
(***************************************************************************)
(* json-parser: the lexer (src/lexer.rs) and the recursive-descent parser  *)
(* (src/parser.rs).  Source text is a sequence of one-character strings;   *)
(* Lexer::lex and Parser::parse are pure functions of their input and are  *)
(* modelled as operators that compute what the Rust code computes, applied *)
(* by the actions DoLex, NewParser and DoParse.                            *)
(***************************************************************************)
EXTENDS Integers, Sequences, FiniteSets, TLC

VARIABLES
    source,     \* Lexer.source: the JSON text
    pc,         \* "new" -> "lexed" -> "ready" -> "done"
    ltokens,    \* Lexer.tokens
    line,       \* Lexer.line
    starts,     \* char_indices `start` of each pushed token (1-based)
    lexret,     \* what Lexer::lex returned
    ptokens,    \* Parser.tokens
    current,    \* Parser.current (0-based index)
    result      \* what Parser::parse returned

vars == <<source, pc, ltokens, line, starts, lexret, ptokens, current, result>>

----------------------------------------------------------------------------
(* Bounds of the model. *)

\* longest source text of the specification Spec
MaxLen == 4
\* longest token sequence (before EOF) of the specification SpecTok
MaxToks == 4
\* longest grammar-conforming token sequence of the specification SpecGrammar
MaxValToks == 9

----------------------------------------------------------------------------
(* Characters. *)

DQ == "\""
BS == "\\"
NL == "\n"
TAB == "\t"
CR == "\r"

\* char::is_alphabetic, on the letters the inputs use
Letters == {"a", "b", "e", "f", "l", "n", "r", "s", "t", "u", "E"}
\* char::is_numeric, on the ASCII digits
Digits == {"0", "1", "2", "3", "4", "5", "6", "7", "8", "9"}

is_alphabetic(c) == c \in Letters
is_numeric(c) == c \in Digits
is_alphanumeric(c) == is_alphabetic(c) \/ is_numeric(c)

----------------------------------------------------------------------------
(* Tokens (lexer.rs, enum Token). *)

Str(s, ln) == [type |-> "Str", val |-> s, line |-> ln]
Number(f, ln) == [type |-> "Number", val |-> f, line |-> ln]
LeftBracket(ln) == [type |-> "LeftBracket", val |-> <<>>, line |-> ln]
RightBracket(ln) == [type |-> "RightBracket", val |-> <<>>, line |-> ln]
LeftBrace(ln) == [type |-> "LeftBrace", val |-> <<>>, line |-> ln]
RightBrace(ln) == [type |-> "RightBrace", val |-> <<>>, line |-> ln]
Comma(ln) == [type |-> "Comma", val |-> <<>>, line |-> ln]
Colon(ln) == [type |-> "Colon", val |-> <<>>, line |-> ln]
Bool(b, ln) == [type |-> "Bool", val |-> b, line |-> ln]
Null(ln) == [type |-> "Null", val |-> <<>>, line |-> ln]
EOF(ln) == [type |-> "EOF", val |-> <<>>, line |-> ln]

\* the single-character tokens of lex's first six match arms
Structural(c, ln) ==
    CASE c = "[" -> LeftBracket(ln)
      [] c = "]" -> RightBracket(ln)
      [] c = "{" -> LeftBrace(ln)
      [] c = "}" -> RightBrace(ln)
      [] c = ":" -> Colon(ln)
      [] c = "," -> Comma(ln)

StructuralChars == {"[", "]", "{", "}", ":", ","}

----------------------------------------------------------------------------
(* str::parse::<f64> on a run of digits, '.', 'e', 'E', '+', '-'.  The     *)
(* value is kept exactly, as mantissa m and decimal exponent e with m not  *)
(* divisible by ten (0 is m = 0, e = 0).                                   *)

DigitVal(c) ==
    CASE c = "0" -> 0 [] c = "1" -> 1 [] c = "2" -> 2 [] c = "3" -> 3
      [] c = "4" -> 4 [] c = "5" -> 5 [] c = "6" -> 6 [] c = "7" -> 7
      [] c = "8" -> 8 [] c = "9" -> 9

RECURSIVE DigitsEnd(_, _)
\* the first index at or after p that holds no digit
DigitsEnd(s, p) ==
    IF p <= Len(s) /\ s[p] \in Digits THEN DigitsEnd(s, p + 1) ELSE p

RECURSIVE DecVal(_, _, _, _)
\* the decimal value of the digits s[p..q-1], appended to acc
DecVal(s, p, q, acc) ==
    IF p >= q THEN acc ELSE DecVal(s, p + 1, q, 10 * acc + DigitVal(s[p]))

RECURSIVE Normal(_, _)
Normal(m, e) ==
    IF m = 0 THEN [m |-> 0, e |-> 0]
    ELSE IF m % 10 = 0 THEN Normal(m \div 10, e + 1)
    ELSE [m |-> m, e |-> e]

ParseF64(s) ==
    LET neg == Len(s) >= 1 /\ s[1] = "-"
        p == IF Len(s) >= 1 /\ s[1] \in {"+", "-"} THEN 2 ELSE 1
        q == DigitsEnd(s, p)
        dot == q <= Len(s) /\ s[q] = "."
        r == IF dot THEN DigitsEnd(s, q + 1) ELSE q
        nint == q - p
        nfrac == IF dot THEN r - (q + 1) ELSE 0
        hasexp == r <= Len(s) /\ s[r] \in {"e", "E"}
        eneg == hasexp /\ r + 1 <= Len(s) /\ s[r + 1] = "-"
        es == IF hasexp /\ r + 1 <= Len(s) /\ s[r + 1] \in {"+", "-"}
              THEN r + 2 ELSE r + 1
        t == IF hasexp THEN DigitsEnd(s, es) ELSE r
        wellformed == /\ nint + nfrac >= 1
                      /\ hasexp => t > es
                      /\ t = Len(s) + 1
        mant == DecVal(s, q + 1, r, DecVal(s, p, q, 0))
        ex == IF hasexp THEN DecVal(s, es, t, 0) ELSE 0
        val == Normal(IF neg THEN 0 - mant ELSE mant,
                      (IF eneg THEN 0 - ex ELSE ex) - nfrac)
    IN  IF wellformed THEN [ok |-> TRUE, val |-> val]
        ELSE [ok |-> FALSE, val |-> [m |-> 0, e |-> 0]]

----------------------------------------------------------------------------
(* Lexer::lex (lexer.rs:60-174). *)

LexOk == [kind |-> "Ok", line |-> 0, text |-> <<>>]
LexErr(k, ln, txt) == [kind |-> k, line |-> ln, text |-> txt]

\* the match on the peeked character after a backslash (lexer.rs:83-89)
Escape(c) ==
    CASE c = "n" -> NL
      [] c = "t" -> TAB
      [] c = "r" -> CR
      [] c = BS -> BS
      [] OTHER -> c

\* where the string loop goes on after a backslash at j: the character
\* after it was peeked, not taken, so the loop's next() yields it again
AfterEscape(j) == j + 1

\* StrLine with the bug of tagging the string with the line of its closing
\* quote
StrLineAtClose(string_start, ln) == ln

\* the line a Str token is tagged with: string_start, not self.line
StrLine(string_start, ln) == string_start

\* EofToken with the bug of tagging EOF with the first line
EofTokenFirstLine(ln) == EOF(1)

\* the token pushed on reaching the end of the source
EofToken(ln) == EOF(ln)

RECURSIVE ScanString(_, _, _, _)
\* the inner `while let` of the '"' arm, from index j with the text so far
ScanString(src, j, ln, string) ==
    IF j > Len(src)
    THEN [closed |-> FALSE, next |-> j, line |-> ln, text |-> string]
    ELSE IF src[j] = NL
    THEN ScanString(src, j + 1, ln + 1, Append(string, src[j]))
    ELSE IF src[j] = BS
    THEN IF j + 1 <= Len(src)
         THEN ScanString(src, AfterEscape(j), ln,
                         Append(string, Escape(src[j + 1])))
         ELSE ScanString(src, j + 1, ln, string)
    ELSE IF src[j] = DQ
    THEN [closed |-> TRUE, next |-> j + 1, line |-> ln, text |-> string]
    ELSE ScanString(src, j + 1, ln, Append(string, src[j]))

RECURSIVE LiteralEnd(_, _)
\* the peek loop of the alphabetic arm: the index after the run
LiteralEnd(src, j) ==
    IF j <= Len(src) /\ (is_alphanumeric(src[j]) \/ src[j] = "_")
    THEN LiteralEnd(src, j + 1) ELSE j

RECURSIVE NumberEnd(_, _)
\* the peek loop of the numeric arm: the index after the run
NumberEnd(src, j) ==
    IF j <= Len(src)
       /\ (is_numeric(src[j]) \/ src[j] \in {".", "e", "E", "+", "-"})
    THEN NumberEnd(src, j + 1) ELSE j

RECURSIVE LexFrom(_, _, _, _, _)
\* the 'outer loop from index i, with Lexer.line, Lexer.tokens so far
LexFrom(src, i, ln, toks, sts) ==
    IF i > Len(src)
    THEN [ret |-> LexOk, tokens |-> Append(toks, EofToken(ln)), line |-> ln,
          starts |-> Append(sts, i)]
    ELSE LET c == src[i] IN
    IF c \in StructuralChars
    THEN LexFrom(src, i + 1, ln, Append(toks, Structural(c, ln)),
                 Append(sts, i))
    ELSE IF c = DQ
    THEN LET s == ScanString(src, i + 1, ln, <<>>) IN
         IF s.closed
         THEN LexFrom(src, s.next, s.line,
                      Append(toks, Str(s.text, StrLine(ln, s.line))),
                      Append(sts, i))
         ELSE [ret |-> LexErr("UnterminatedString", ln, <<>>),
               tokens |-> toks, line |-> s.line, starts |-> sts]
    ELSE IF c \in {" ", CR, TAB}
    THEN LexFrom(src, i + 1, ln, toks, sts)
    ELSE IF c = NL
    THEN LexFrom(src, i + 1, ln + 1, toks, sts)
    ELSE IF is_alphabetic(c)
    THEN LET end == LiteralEnd(src, i + 1)
             word == SubSeq(src, i, end - 1)
         IN  IF word = <<"t", "r", "u", "e">>
             THEN LexFrom(src, end, ln, Append(toks, Bool(TRUE, ln)),
                          Append(sts, i))
             ELSE IF word = <<"f", "a", "l", "s", "e">>
             THEN LexFrom(src, end, ln, Append(toks, Bool(FALSE, ln)),
                          Append(sts, i))
             ELSE IF word = <<"n", "u", "l", "l">>
             THEN LexFrom(src, end, ln, Append(toks, Null(ln)),
                          Append(sts, i))
             ELSE [ret |-> LexErr("UnknownLiteral", ln, word),
                   tokens |-> toks, line |-> ln, starts |-> sts]
    ELSE IF is_numeric(c) \/ c = "+" \/ c = "-"
    THEN LET end == NumberEnd(src, i + 1)
             run == SubSeq(src, i, end - 1)
             f == ParseF64(run)
         IN  IF f.ok
             THEN LexFrom(src, end, ln, Append(toks, Number(f.val, ln)),
                          Append(sts, i))
             ELSE [ret |-> LexErr("InvalidNumber", ln, run),
                   tokens |-> toks, line |-> ln, starts |-> sts]
    ELSE [ret |-> LexErr("UnknownSymbol", ln, <<c>>),
          tokens |-> toks, line |-> ln, starts |-> sts]

\* Lexer::new (line 1, no tokens) followed by lex
Lex(src) == LexFrom(src, 1, 1, <<>>, <<>>)

----------------------------------------------------------------------------
(* Values (parser.rs, enum Value).  A Dict is a function from its keys.    *)

VDict(m) == [kind |-> "Dict", val |-> m]
VList(l) == [kind |-> "List", val |-> l]
VBool(b) == [kind |-> "Bool", val |-> b]
VStr(s) == [kind |-> "Str", val |-> s]
VNumber(f) == [kind |-> "Number", val |-> f]
VNull == [kind |-> "Null", val |-> <<>>]

EmptyMap == [k \in {} |-> VNull]

\* Insert with the bug of keeping the first value of a key
InsertKeepsFirst(m, k, v) ==
    [x \in (DOMAIN m) \cup {k} |-> IF x \in DOMAIN m THEN m[x] ELSE v]

\* HashMap::insert: a later value for a key replaces the earlier one
Insert(m, k, v) ==
    [x \in (DOMAIN m) \cup {k} |-> IF x = k THEN v ELSE m[x]]

----------------------------------------------------------------------------
(* Parser (parser.rs:72-204).  Every operator takes the cursor and returns *)
(* it with its result: ret is "Ok", an error kind, or "Panic" when a token *)
(* index is not below tokens.len().                                        *)

NoTok == [type |-> "None", val |-> <<>>, line |-> 0]

POk(v, cur) ==
    [ret |-> "Ok", val |-> v, cur |-> cur, expected |-> "", got |-> NoTok]
PErr(k, exp, tok, cur) ==
    [ret |-> k, val |-> VNull, cur |-> cur, expected |-> exp, got |-> tok]
PPanic(cur) ==
    [ret |-> "Panic", val |-> VNull, cur |-> cur, expected |-> "",
     got |-> NoTok]

\* &self.tokens[i] does not panic
InBounds(ts, i) == i < Len(ts)
\* &self.tokens[i], for a 0-based i that is in bounds
At(ts, i) == ts[i + 1]

\* Parser::advance
advance(cur) == cur + 1

\* Lookahead with the bug of looking one token too far
LookaheadTooFar(cur) == cur + 2

\* the index of the lookahead for an empty container: current.get() + 1
Lookahead(cur) == cur + 1

\* IsEOF with the bug of accepting whatever follows the value
IsEOFUnchecked(tok) == TRUE

\* the test `if let Token::EOF(_)` of parse
IsEOF(tok) == tok.type = "EOF"

\* the test `if let Token::Str(s, _)` of parse_dict
IsKey(tok) == tok.type = "Str"

\* IsComma with the bug of taking ':' for a separator too
IsCommaOrColon(tok) == tok.type \in {"Comma", "Colon"}

\* the test `if let Token::Comma(_)` that continues the loops
IsComma(tok) == tok.type = "Comma"

\* KeyError with the bug of reporting the other error kind
KeyErrorAsUnexpected(tok, cur) ==
    PErr("UnexpectedToken", "string for key", tok, cur)

\* the error of parse_dict's else branch: the token at a key position is
\* no Str
KeyError(tok, cur) == PErr("InvalidKey", "string for key", tok, cur)

RECURSIVE parse_value(_, _)
RECURSIVE parse_list(_, _, _)
RECURSIVE parse_dict(_, _, _)

\* parse_list's loop, entered with the cursor on '[' or ',' and the
\* elements so far
parse_list(ts, cur, acc) ==
    LET c1 == advance(cur)
        r == parse_value(ts, c1)
        c2 == advance(r.cur)
        acc2 == Append(acc, r.val)
    IN  IF r.ret # "Ok" THEN r
        ELSE IF ~InBounds(ts, c2) THEN PPanic(c2)
        ELSE IF IsComma(At(ts, c2)) THEN parse_list(ts, c2, acc2)
        ELSE IF At(ts, c2).type = "RightBracket" THEN POk(acc2, c2)
        ELSE PErr("UnexpectedToken", "]", At(ts, c2), c2)

\* parse_dict's loop, entered with the cursor on '{' or ',' and the
\* map so far
parse_dict(ts, cur, acc) ==
    LET c1 == advance(cur)
        c2 == advance(c1)
        c3 == advance(c2)
        r == parse_value(ts, c3)
        c4 == advance(r.cur)
        acc2 == Insert(acc, At(ts, c1).val, r.val)
    IN  IF ~InBounds(ts, c1) THEN PPanic(c1)
        ELSE IF ~IsKey(At(ts, c1))
        THEN KeyError(At(ts, c1), c1)
        ELSE IF ~InBounds(ts, c2) THEN PPanic(c2)
        ELSE IF At(ts, c2).type # "Colon"
        THEN PErr("UnexpectedToken", ":", At(ts, c2), c2)
        ELSE IF r.ret # "Ok" THEN r
        ELSE IF ~InBounds(ts, c4) THEN PPanic(c4)
        ELSE IF IsComma(At(ts, c4)) THEN parse_dict(ts, c4, acc2)
        ELSE IF At(ts, c4).type = "RightBrace" THEN POk(acc2, c4)
        ELSE PErr("UnexpectedToken", "}", At(ts, c4), c4)

parse_value(ts, cur) ==
    IF ~InBounds(ts, cur) THEN PPanic(cur)
    ELSE LET tok == At(ts, cur) IN
    CASE tok.type = "Str" -> POk(VStr(tok.val), cur)
      [] tok.type = "Bool" -> POk(VBool(tok.val), cur)
      [] tok.type = "Number" -> POk(VNumber(tok.val), cur)
      [] tok.type = "Null" -> POk(VNull, cur)
      [] tok.type = "LeftBracket" ->
            IF ~InBounds(ts, Lookahead(cur)) THEN PPanic(Lookahead(cur))
            ELSE IF At(ts, Lookahead(cur)).type = "RightBracket"
            THEN POk(VList(<<>>), advance(cur))
            ELSE LET r == parse_list(ts, cur, <<>>) IN
                 IF r.ret = "Ok" THEN POk(VList(r.val), r.cur) ELSE r
      [] tok.type = "LeftBrace" ->
            IF ~InBounds(ts, Lookahead(cur)) THEN PPanic(Lookahead(cur))
            ELSE IF At(ts, Lookahead(cur)).type = "RightBrace"
            THEN POk(VDict(EmptyMap), advance(cur))
            ELSE LET r == parse_dict(ts, cur, EmptyMap) IN
                 IF r.ret = "Ok" THEN POk(VDict(r.val), r.cur) ELSE r
      [] OTHER -> PErr("UnexpectedToken", "", tok, cur)

\* Parser::parse, from Parser::new's cursor 0
parse(ts) ==
    LET r == parse_value(ts, 0)
        c == advance(r.cur)
    IN  IF r.ret # "Ok" THEN r
        ELSE IF ~InBounds(ts, c) THEN PPanic(c)
        ELSE IF IsEOF(At(ts, c)) THEN POk(r.val, c)
        ELSE PErr("UnexpectedToken", "EOF", At(ts, c), c)

----------------------------------------------------------------------------
(* The program: construct a Lexer on the source, lex, move the tokens into *)
(* a Parser, parse (the sequence of the tests of parser.rs).               *)

NoResult == [ret |-> "None", val |-> VNull, cur |-> 0, expected |-> "",
             got |-> NoTok]
NoLex == [kind |-> "None", line |-> 0, text |-> <<>>]

\* Lexer::new(source)
InitOn(S) ==
    /\ source \in S
    /\ pc = "new"
    /\ ltokens = <<>>
    /\ line = 1
    /\ starts = <<>>
    /\ lexret = NoLex
    /\ ptokens = <<>>
    /\ current = 0
    /\ result = NoResult

\* lexer.lex()
DoLex ==
    /\ pc = "new"
    /\ LET l == Lex(source) IN
        /\ ltokens' = l.tokens
        /\ line' = l.line
        /\ starts' = l.starts
        /\ lexret' = l.ret
    /\ pc' = "lexed"
    /\ UNCHANGED <<source, ptokens, current, result>>

\* lexer.lex().unwrap(); Parser::new(lexer.tokens)
NewParser ==
    /\ pc = "lexed"
    /\ lexret.kind = "Ok"
    /\ ptokens' = ltokens
    /\ current' = 0
    /\ pc' = "ready"
    /\ UNCHANGED <<source, ltokens, line, starts, lexret, result>>

\* parser.parse()
DoParse ==
    /\ pc = "ready"
    /\ LET r == parse(ptokens) IN
        /\ result' = r
        /\ current' = r.cur
    /\ pc' = "done"
    /\ UNCHANGED <<source, ltokens, line, starts, lexret, ptokens>>

Next == DoLex \/ NewParser \/ DoParse

----------------------------------------------------------------------------
(* Inputs. *)

\* the characters of the texts of Spec
Alphabet == {DQ, BS, NL, "n", "1", "-", " ", "[", "]"}

RECURSIVE SeqsUpTo(_, _)
\* the sequences over S of length at most n
SeqsUpTo(S, n) ==
    IF n = 0 THEN {<<>>}
    ELSE LET T == SeqsUpTo(S, n - 1) IN
         T \cup {Append(t, x) : t \in {u \in T : Len(u) = n - 1}, x \in S}

Texts == SeqsUpTo(Alphabet, MaxLen)

Init == InitOn(Texts)

\* every text of at most MaxLen characters is lexed and, if lex succeeds,
\* parsed
Spec == Init /\ [][Next]_vars

\* the texts of single tokens
WLB == <<"[">>
WRB == <<"]">>
WLC == <<"{">>
WRC == <<"}">>
WComma == <<",">>
WColon == <<":">>
WStrA == <<DQ, "a", DQ>>
WStrB == <<DQ, "b", DQ>>
WOne == <<"1">>
WTrue == <<"t", "r", "u", "e">>
WNull == <<"n", "u", "l", "l">>

Words == {WLB, WRB, WLC, WRC, WComma, WColon, WStrA, WOne}
AtomWords == {WStrA, WStrB, WOne, WTrue, WNull}
KeyWords == {WStrA, WStrB}

RECURSIVE Join(_)
\* the text of a sequence of token texts, a space after each
Join(ws) ==
    IF ws = <<>> THEN <<>> ELSE Head(ws) \o <<" ">> \o Join(Tail(ws))

RECURSIVE Values(_)
RECURSIVE Elems(_)
RECURSIVE Pairs(_)
\* the derivations of `value` of at most n tokens
Values(n) ==
    IF n < 1 THEN {}
    ELSE {<<a>> : a \in AtomWords}
         \cup (IF n >= 2 THEN {<<WLB, WRB>>, <<WLC, WRC>>} ELSE {})
         \cup {<<WLB>> \o e \o <<WRB>> : e \in Elems(n - 2)}
         \cup {<<WLC>> \o p \o <<WRC>> : p \in Pairs(n - 2)}
\* value ("," value)* of at most n tokens
Elems(n) ==
    IF n < 1 THEN {}
    ELSE Values(n)
         \cup UNION {{v \o <<WComma>> \o e : e \in Elems(n - Len(v) - 1)} :
                     v \in Values(n - 2)}
\* pair ("," pair)* of at most n tokens
Pairs(n) ==
    IF n < 3 THEN {}
    ELSE LET One(m) == {<<k, WColon>> \o v : k \in KeyWords, v \in Values(m - 2)}
         IN  One(n)
             \cup UNION {{p \o <<WComma>> \o q : q \in Pairs(n - Len(p) - 1)} :
                         p \in One(n - 4)}

\* the prefixes (proper or not) of the derivations of at most n tokens
Prefixes(n) ==
    UNION {{SubSeq(v, 1, k) : k \in 0..Len(v)} : v \in Values(n)}

\* token sequences in any order, and the prefix of a derivation followed by
\* any one token
TokInputs ==
    SeqsUpTo(Words, MaxToks)
    \cup {Append(p, w) :
            p \in {q \in Prefixes(MaxValToks) : Len(q) <= MaxToks + 2},
            w \in Words}

InitTok == InitOn({Join(ws) : ws \in TokInputs})

\* the same program on token sequences in any order, well-formed or not
SpecTok == InitTok /\ [][Next]_vars

InitGrammar == InitOn({Join(ws) : ws \in Prefixes(MaxValToks)})

\* the same program on the derivations of the grammar and on their prefixes
SpecGrammar == InitGrammar /\ [][Next]_vars

----------------------------------------------------------------------------
(* The grammar of parser.rs:5-9 as a recogniser of token types, read left  *)
(* to right with the stack of open containers.  It stops at the first      *)
(* token the grammar does not allow and reports what was expected there:   *)
(*   V      a value                 VC     a value or ']' (after '[')      *)
(*   KC     a key or '}' (after '{')       K   a key (after ',' in a dict) *)
(*   COLON  ':' (after a key)       AL     ',' or ']' (after an element)   *)
(*   AD     ',' or '}' (after a pair)      END EOF (after the value)       *)

Types(ts) == [i \in 1..Len(ts) |-> ts[i].type]

AtomTypes == {"Str", "Number", "Bool", "Null"}

RefAfter(st) ==
    IF st = <<>> THEN "END" ELSE IF Head(st) = "L" THEN "AL" ELSE "AD"

RECURSIVE RefScan(_, _, _, _)
RefScan(ty, i, state, st) ==
    LET stop == [pos |-> i, state |-> state, accepted |-> FALSE]
        go(s2, st2) == RefScan(ty, i + 1, s2, st2)
        pop == go(RefAfter(Tail(st)), Tail(st))
    IN  IF i > Len(ty) THEN stop
        ELSE CASE state \in {"V", "VC"} ->
                    IF ty[i] \in AtomTypes THEN go(RefAfter(st), st)
                    ELSE IF ty[i] = "LeftBracket" THEN go("VC", <<"L">> \o st)
                    ELSE IF ty[i] = "LeftBrace" THEN go("KC", <<"D">> \o st)
                    ELSE IF state = "VC" /\ ty[i] = "RightBracket" THEN pop
                    ELSE stop
               [] state \in {"K", "KC"} ->
                    IF ty[i] = "Str" THEN go("COLON", st)
                    ELSE IF state = "KC" /\ ty[i] = "RightBrace" THEN pop
                    ELSE stop
               [] state = "COLON" ->
                    IF ty[i] = "Colon" THEN go("V", st) ELSE stop
               [] state = "AL" ->
                    IF ty[i] = "Comma" THEN go("V", st)
                    ELSE IF ty[i] = "RightBracket" THEN pop
                    ELSE stop
               [] state = "AD" ->
                    IF ty[i] = "Comma" THEN go("K", st)
                    ELSE IF ty[i] = "RightBrace" THEN pop
                    ELSE stop
               [] state = "END" ->
                    IF ty[i] = "EOF" /\ i = Len(ty)
                    THEN [pos |-> i, state |-> state, accepted |-> TRUE]
                    ELSE stop

\* the recogniser on a token sequence
Ref(ts) == RefScan(Types(ts), 1, "V", <<>>)

(* The tree a derivation denotes, by matching brackets and cutting at the  *)
(* commas of nesting depth 0: a list holds its elements in order, a dict   *)
(* maps each key to the value of the key's last pair.                      *)

Opens == {"LeftBracket", "LeftBrace"}
Closes == {"RightBracket", "RightBrace"}

Min(S) == CHOOSE x \in S : \A y \in S : x <= y
Max(S) == CHOOSE x \in S : \A y \in S : x >= y

RECURSIVE Sorted(_)
Sorted(S) == IF S = {} THEN <<>> ELSE <<Min(S)>> \o Sorted(S \ {Min(S)})

Depth(ty, lo, i) ==
    Cardinality({j \in lo..(i - 1) : ty[j] \in Opens})
    - Cardinality({j \in lo..(i - 1) : ty[j] \in Closes})

TopCommas(ty, lo, hi) ==
    {i \in lo..hi : ty[i] = "Comma" /\ Depth(ty, lo, i) = 0}

SegStarts(ty, lo, hi) ==
    IF lo > hi THEN {} ELSE {lo} \cup {c + 1 : c \in TopCommas(ty, lo, hi)}

SegEnd(ty, lo, hi, s) ==
    LET later == {c \in TopCommas(ty, lo, hi) : c > s}
    IN  IF later = {} THEN hi ELSE Min(later) - 1

RECURSIVE RefDen(_, _, _)
\* the value the tokens ts[lo..hi], a derivation of `value`, denote
RefDen(ts, lo, hi) ==
    LET ty == Types(ts)
        S == SegStarts(ty, lo + 1, hi - 1)
        ss == Sorted(S)
        end(x) == SegEnd(ty, lo + 1, hi - 1, x)
    IN  CASE ty[lo] = "Str" -> VStr(ts[lo].val)
          [] ty[lo] = "Number" -> VNumber(ts[lo].val)
          [] ty[lo] = "Bool" -> VBool(ts[lo].val)
          [] ty[lo] = "Null" -> VNull
          [] ty[lo] = "LeftBracket" ->
                VList([i \in 1..Len(ss) |-> RefDen(ts, ss[i], end(ss[i]))])
          [] ty[lo] = "LeftBrace" ->
                VDict([k \in {ts[x].val : x \in S} |->
                        LET last == Max({x \in S : ts[x].val = k})
                        IN  RefDen(ts, last + 2, end(last))])

(* JSON text: the lexical grammar of JSON read with two-character escapes, *)
(* followed by the grammar above.                                          *)

RECURSIVE RefStringClose(_, _)
\* the index of the first double quote at or after j that no backslash
\* escapes, reading every backslash with the character after it as one
\* unit; 0 when the text ends first
RefStringClose(src, j) ==
    IF j > Len(src) THEN 0
    ELSE IF src[j] = DQ THEN j
    ELSE IF src[j] = BS
    THEN IF j + 1 > Len(src) THEN 0 ELSE RefStringClose(src, j + 2)
    ELSE RefStringClose(src, j + 1)

RECURSIVE RefUnescape(_, _, _)
\* the text of the string body src[j..close-1]: one character per unit
RefUnescape(src, j, close) ==
    IF j >= close THEN <<>>
    ELSE IF src[j] = BS
    THEN <<(CASE src[j + 1] = "n" -> NL
              [] src[j + 1] = "t" -> TAB
              [] src[j + 1] = "r" -> CR
              [] OTHER -> src[j + 1])>> \o RefUnescape(src, j + 2, close)
    ELSE <<src[j]>> \o RefUnescape(src, j + 1, close)

JsonEscapes == {DQ, BS, "/", "b", "f", "n", "r", "t"}

RECURSIVE RefJsonBody(_, _, _)
\* the string body src[j..close-1] is made of JSON's characters and escapes
RefJsonBody(src, j, close) ==
    IF j >= close THEN TRUE
    ELSE IF src[j] = BS
    THEN src[j + 1] \in JsonEscapes /\ RefJsonBody(src, j + 2, close)
    ELSE src[j] \notin {NL, CR, TAB} /\ RefJsonBody(src, j + 1, close)

\* JSON's number: -? (0 | [1-9][0-9]*) (. [0-9]+)? ([eE] [+-]? [0-9]+)?
RefJsonNumber(s) ==
    LET p == IF s[1] = "-" THEN 2 ELSE 1
        q == DigitsEnd(s, p)
        dot == q <= Len(s) /\ s[q] = "."
        r == IF dot THEN DigitsEnd(s, q + 1) ELSE q
        hasexp == r <= Len(s) /\ s[r] \in {"e", "E"}
        es == IF hasexp /\ r + 1 <= Len(s) /\ s[r + 1] \in {"+", "-"}
              THEN r + 2 ELSE r + 1
        t == IF hasexp THEN DigitsEnd(s, es) ELSE r
    IN  /\ q > p
        /\ (q - p > 1) => s[p] # "0"
        /\ dot => r > q + 1
        /\ hasexp => t > es
        /\ t = Len(s) + 1

RECURSIVE RefJsonTypes(_, _, _)
\* the token types of a JSON text, <<"BAD">> when it has a malformed token
RefJsonTypes(src, i, acc) ==
    IF i > Len(src) THEN Append(acc, "EOF")
    ELSE IF src[i] \in {" ", NL, CR, TAB} THEN RefJsonTypes(src, i + 1, acc)
    ELSE IF src[i] \in StructuralChars
    THEN RefJsonTypes(src, i + 1, Append(acc, Structural(src[i], 0).type))
    ELSE IF src[i] = DQ
    THEN LET close == RefStringClose(src, i + 1) IN
         IF close # 0 /\ RefJsonBody(src, i + 1, close)
         THEN RefJsonTypes(src, close + 1, Append(acc, "Str"))
         ELSE <<"BAD">>
    ELSE IF src[i] \in Letters
    THEN LET end == LiteralEnd(src, i + 1)
             word == SubSeq(src, i, end - 1)
         IN  IF word \in {<<"t", "r", "u", "e">>, <<"f", "a", "l", "s", "e">>}
             THEN RefJsonTypes(src, end, Append(acc, "Bool"))
             ELSE IF word = <<"n", "u", "l", "l">>
             THEN RefJsonTypes(src, end, Append(acc, "Null"))
             ELSE <<"BAD">>
    ELSE IF src[i] \in Digits \cup {"-"}
    THEN LET end == NumberEnd(src, i + 1) IN
         IF RefJsonNumber(SubSeq(src, i, end - 1))
         THEN RefJsonTypes(src, end, Append(acc, "Number"))
         ELSE <<"BAD">>
    ELSE <<"BAD">>

\* src is a well-formed JSON text
RefIsJson(src) ==
    LET ty == RefJsonTypes(src, 1, <<>>)
    IN  ty # <<"BAD">> /\ RefScan(ty, 1, "V", <<>>).accepted

\* the number of newlines in src[1..k]
Newlines(src, k) == Cardinality({j \in 1..k : src[j] = NL})

----------------------------------------------------------------------------
(* Properties. *)

Lexed == pc # "new"
LexedOk == pc # "new" /\ lexret.kind = "Ok"
Parsed == pc = "done"

\* C1: every well-formed JSON text (escapes in strings and whitespace
\* between tokens included) is lexed with Ok and then parsed with Ok.
C1_WellFormedJsonIsAccepted ==
    RefIsJson(source) =>
        /\ Lexed => lexret.kind = "Ok"
        /\ Parsed => result.ret = "Ok"

\* the source starts with a string literal that an unescaped quote closes
StartsWithLiteral ==
    /\ Len(source) >= 2
    /\ source[1] = DQ
    /\ RefStringClose(source, 2) # 0

\* C2: a backslash and the character after it are one unit that gives one
\* character of the Str token's text (\n newline, \t tab, \r carriage
\* return, \\ backslash, any other character itself); the character after
\* the backslash is not scanned again.
C2_EscapeGivesOneCharacter ==
    (Lexed /\ StartsWithLiteral) =>
        /\ Len(ltokens) >= 1
        /\ ltokens[1] =
             Str(RefUnescape(source, 2, RefStringClose(source, 2)), 1)

\* the index of the first double quote of the source, 0 when it has none
FirstQuote ==
    IF \E j \in 1..Len(source) : source[j] = DQ
    THEN Min({j \in 1..Len(source) : source[j] = DQ}) ELSE 0

\* the first quote opens a string (only structural characters and
\* whitespace precede it) that no unescaped quote closes
OpenLiteral ==
    /\ FirstQuote # 0
    /\ \A j \in 1..(FirstQuote - 1) :
            source[j] \in StructuralChars \cup {" ", NL, CR, TAB}
    /\ RefStringClose(source, FirstQuote + 1) = 0

\* C8: a string that no unescaped double quote closes before the end of
\* input makes lex fail with UnterminatedString carrying the line of the
\* opening quote, and no Str token is emitted for it.
C8_UnclosedStringIsUnterminated ==
    (Lexed /\ OpenLiteral) =>
        /\ lexret = LexErr("UnterminatedString",
                           1 + Newlines(source, FirstQuote - 1), <<>>)
        /\ \A i \in 1..Len(ltokens) : ltokens[i].type # "Str"

\* C6: when lex returns Ok the tokens end with an EOF token, hold no other
\* EOF, and that EOF carries the final value of the line counter (1 plus
\* the newlines of the source); the empty source gives exactly [EOF(1)].
C6_EndsWithOneEOF ==
    LexedOk =>
        /\ Len(ltokens) >= 1
        /\ ltokens[Len(ltokens)] = EOF(line)
        /\ line = 1 + Newlines(source, Len(source))
        /\ \A i \in 1..(Len(ltokens) - 1) : ltokens[i].type # "EOF"
        /\ source = <<>> => ltokens = <<EOF(1)>>

\* lex succeeded on a source with newlines and tokens before the EOF
C6_Witness ==
    /\ LexedOk
    /\ line > 1
    /\ Len(ltokens) >= 2
    /\ ltokens[Len(ltokens)].type = "EOF"

\* C7: after a successful lex every token's line is 1 plus the number of
\* newlines before the token's first character (the opening quote of a
\* Str), and the lines never decrease along the sequence.
C7_TokenLines ==
    LexedOk =>
        /\ Len(starts) = Len(ltokens)
        /\ \A i \in 1..Len(ltokens) :
              /\ ltokens[i].line = 1 + Newlines(source, starts[i] - 1)
              /\ ltokens[i].type = "Str" => source[starts[i]] = DQ
        /\ \A i \in 1..(Len(ltokens) - 1) :
              ltokens[i].line <= ltokens[i + 1].line

\* a string that spans lines and holds a backslash followed by a newline,
\* with a token after it on a later line
C7_Witness ==
    /\ LexedOk
    /\ \E i \in 1..(Len(ltokens) - 1) :
          /\ ltokens[i].type = "Str"
          /\ ltokens[i].line < ltokens[i + 1].line
    /\ \E j \in 1..(Len(source) - 1) : source[j] = BS /\ source[j + 1] = NL

RECURSIVE SameValue(_, _)
\* a and b are the same tree: the same kind and, by kind, the same atom,
\* the same elements in the same order, or the same keys with the same
\* values
SameValue(a, b) ==
    /\ a.kind = b.kind
    /\ CASE a.kind = "List" ->
                /\ Len(a.val) = Len(b.val)
                /\ \A i \in 1..Len(a.val) : SameValue(a.val[i], b.val[i])
          [] a.kind = "Dict" ->
                /\ DOMAIN a.val = DOMAIN b.val
                /\ \A k \in DOMAIN a.val : SameValue(a.val[k], b.val[k])
          [] OTHER -> a.val = b.val

\* C3: on a derivation of `value` followed by EOF, parse returns Ok with
\* the tree the grammar denotes: atoms for atom tokens, a List of the
\* elements in order, a Dict mapping each key to the value of its last
\* occurrence, empty containers for '[' ']' and '{' '}' at any depth.
C3_ParseGivesTheTree ==
    (Parsed /\ Ref(ptokens).accepted) =>
        /\ result.ret = "Ok"
        /\ SameValue(result.val, RefDen(ptokens, 1, Len(ptokens) - 1))

\* a dict whose two pairs have the same key and different values
C3_Witness ==
    /\ Parsed
    /\ result.ret = "Ok"
    /\ Len(ptokens) = 10
    /\ ptokens[1].type = "LeftBrace"
    /\ ptokens[5].type = "Comma"
    /\ ptokens[2].val = ptokens[6].val
    /\ ptokens[4].type # ptokens[8].type

\* C4: when parse returns Ok the cursor is on the last token, which is the
\* only EOF, so every other token was consumed; a token other than EOF
\* after the first complete value makes parse fail with UnexpectedToken.
C4_OkConsumesAllTokens ==
    Parsed =>
        /\ result.ret = "Ok" =>
              /\ current = Len(ptokens) - 1
              /\ ptokens[current + 1].type = "EOF"
              /\ \A i \in 1..current : ptokens[i].type # "EOF"
        /\ (Ref(ptokens).state = "END" /\ ~Ref(ptokens).accepted) =>
              /\ result.ret = "UnexpectedToken"
              /\ result.got = ptokens[Ref(ptokens).pos]

\* parse returned Ok on a container of several tokens
C4_Witness ==
    /\ Parsed
    /\ result.ret = "Ok"
    /\ current >= 3
    /\ ptokens[1].type \in Opens

\* C5: on the tokens of a successful lex (EOF last and only there) no token
\* read of the parser, the lookahead at cursor + 1 included, is out of
\* bounds: parse returns Ok or a ParseError whatever the token order.
C5_NoReadOutOfBounds ==
    Parsed =>
        /\ result.ret \in {"Ok", "UnexpectedToken", "InvalidKey"}
        /\ current < Len(ptokens)

\* an opener as the last token before EOF: the lookahead reads the last
\* index of the sequence
C5_Witness ==
    /\ Parsed
    /\ Len(ptokens) >= 3
    /\ ptokens[Len(ptokens) - 1].type \in Opens
    /\ result.cur = Len(ptokens) - 1

\* C9: inside containers, a token that is no Str at a key position (after
\* '{' unless it is '}', or after ',') gives InvalidKey; a token other than
\* ':' after a key, other than ',' or '}' after a pair's value, other than
\* ',' or ']' after a list element, and a ']' after a ',' give
\* UnexpectedToken; the error names the offending token.
C9_ContainerErrors ==
    (Parsed /\ ~Ref(ptokens).accepted) =>
        LET r == Ref(ptokens)
            ty == Types(ptokens)
        IN  /\ r.state \in {"K", "KC"} =>
                  /\ result.ret = "InvalidKey"
                  /\ result.got = ptokens[r.pos]
            /\ r.state \in {"COLON", "AD", "AL"} =>
                  /\ result.ret = "UnexpectedToken"
                  /\ result.got = ptokens[r.pos]
            /\ (r.state = "V" /\ r.pos > 1 /\ ty[r.pos - 1] = "Comma"
                 /\ ty[r.pos] = "RightBracket") =>
                  /\ result.ret = "UnexpectedToken"
                  /\ result.got = ptokens[r.pos]

\* a token that is no Str and no EOF after the ',' of a dict
C9_Witness ==
    /\ Parsed
    /\ Ref(ptokens).state = "K"
    /\ ptokens[Ref(ptokens).pos].type # "EOF"
    /\ result.ret = "InvalidKey"

\* the EOF token stands where the grammar requires another token
PrematureEOF ==
    /\ Parsed
    /\ ~Ref(ptokens).accepted
    /\ ptokens[Ref(ptokens).pos].type = "EOF"

\* C10 (as claimed): a premature end of input, at any position, makes
\* parse fail with UnexpectedToken.
C10_PrematureEOFIsUnexpectedToken ==
    PrematureEOF => result.ret = "UnexpectedToken"

\* C10 (amended): a premature end of input makes parse fail with
\* UnexpectedToken, except at a dict key position (right after '{' or
\* right after the ',' of a dict), where parse fails with InvalidKey.
C10_PrematureEOFByPosition ==
    PrematureEOF =>
        /\ result.ret = IF Ref(ptokens).state \in {"K", "KC"}
                        THEN "InvalidKey" ELSE "UnexpectedToken"
        /\ result.got = ptokens[Len(ptokens)]

\* the input ends right after the ',' of a dict
C10_Witness ==
    /\ PrematureEOF
    /\ Ref(ptokens).state = "K"
    /\ result.ret = "InvalidKey"

====
